---- MODULE Spec2Model ----
(***************************************************************************)
(* A model of src/Model.py: the fermentation model `Model` with its Euler  *)
(* integrator `step`, the derivative evaluator `DEs`, the grid search      *)
(* `calculate_pH`, and the history list `_Xs`.                             *)
(*                                                                         *)
(* Numbers.  Python floats are modelled as decimal floating-point numbers  *)
(* <<m, e>> = m * 10^e with a four digit mantissa (1000 <= |m| <= 9999, or *)
(* <<0, 0>> for zero), every operation rounded to nearest.  The values     *)
(* NaN, NegInf and PosInf stand for numpy's non-finite results.  The       *)
(* rate matrix is inverted over exact rationals <<n, d>> and the inverse   *)
(* then rounded to floats.                                                 *)
(***************************************************************************)
EXTENDS Integers, Sequences, FiniteSets, TLC

----------------------------------------------------------------------------
(* Decimal floating point                                                  *)

Abs(n) == IF n < 0 THEN -n ELSE n

Sgn(n) == IF n < 0 THEN -1 ELSE 1

\* 10^k for k in 0..9
Pow10(k) ==
  <<1, 10, 100, 1000, 10000, 100000, 1000000, 10000000, 100000000,
    1000000000>>[k + 1]

\* The number of decimal digits of n > 0
NDigits(n) ==
  IF n < 10000
  THEN (IF n < 100 THEN (IF n < 10 THEN 1 ELSE 2)
        ELSE (IF n < 1000 THEN 3 ELSE 4))
  ELSE IF n < 1000000 THEN (IF n < 100000 THEN 5 ELSE 6)
  ELSE IF n < 100000000 THEN (IF n < 10000000 THEN 7 ELSE 8)
  ELSE IF n < 1000000000 THEN 9 ELSE 10

\* m * 10^e with the last k digits of m rounded away, r the rounded mantissa.
Rounded(m, e, k, r) ==
  IF r >= 10000 THEN <<Sgn(m) * 1000, e + k + 1>> ELSE <<Sgn(m) * r, e + k>>

\* m * 10^e for m of d digits, as a float.
NormDigits(m, e, d) ==
  IF d <= 4 THEN <<m * Pow10(4 - d), e - (4 - d)>>
  ELSE Rounded(m, e, d - 4, (Abs(m) + 5 * Pow10(d - 5)) \div Pow10(d - 4))

\* The float nearest to m * 10^e (four significant digits).
Norm(m, e) == IF m = 0 THEN <<0, 0>> ELSE NormDigits(m, e, NDigits(Abs(m)))

F(m, e) == Norm(m, e)

Zero == <<0, 0>>

\* numpy's nan, -inf and inf
NaN == <<0, 9999>>

NegInf == <<-1, 9999>>

PosInf == <<1, 9999>>

Finite(x) == x[2] # 9999

Neg(x) == <<-x[1], x[2]>>

\* big + small for nonzero floats with big[2] >= small[2]
AddAligned(big, small) ==
  IF big[2] - small[2] >= 6 THEN big
  ELSE Norm(big[1] * Pow10(big[2] - small[2]) + small[1], small[2])

Add(x, y) ==
  IF x[1] = 0 THEN y
  ELSE IF y[1] = 0 THEN x
  ELSE IF x[2] >= y[2] THEN AddAligned(x, y)
  ELSE AddAligned(y, x)

Sub(x, y) == Add(x, Neg(y))

Mul(x, y) == Norm(x[1] * y[1], x[2] + y[2])

\* x / y for y not zero
Div(x, y) == Norm(Sgn(x[1]) * Sgn(y[1]) * ((Abs(x[1]) * 100000) \div Abs(y[1])),
                  x[2] - y[2] - 5)

Less(x, y) == Sub(x, y)[1] < 0

IsPos(x) == x[1] > 0

FAbs(x) == <<Abs(x[1]), x[2]>>

LessEq(x, y) == ~Less(y, x)

----------------------------------------------------------------------------
(* Exact rationals <<n, d>>, d > 0, in lowest terms                        *)

RECURSIVE GCD(_, _)
GCD(a, b) == IF b = 0 THEN a ELSE GCD(b, a % b)

RNorm(n, d) ==
  <<Sgn(d) * (n \div GCD(Abs(n), Abs(d))), Abs(d) \div GCD(Abs(n), Abs(d))>>

R(n) == <<n, 1>>

RAdd(p, q) == RNorm(p[1] * q[2] + q[1] * p[2], p[2] * q[2])

RMul(p, q) == RNorm(p[1] * q[1], p[2] * q[2])

RSub(p, q) == RAdd(p, <<-q[1], q[2]>>)

\* q is not zero
RDiv(p, q) == RNorm(p[1] * q[2], p[2] * q[1])

RAbsLess(p, q) == Abs(p[1]) * q[2] < Abs(q[1]) * p[2]

\* The float nearest to the rational q.
ToFloat(q) == Div(F(q[1], 0), F(q[2], 0))

----------------------------------------------------------------------------
(* The rate matrix and its inverse (Model.__init__)                        *)

\* alpha, PO, gamma, theta, beta = 0.1, 0.1, 1.8, 0.1, 0.1
gammaQ == RNorm(18, 10)

betaQ == RNorm(1, 10)

rate_matrix ==
  << <<R(1),  R(0),  R(0),        R(0), R(0)>>,
     <<R(0),  R(0),  R(0),        R(1), R(0)>>,
     <<R(0),  R(0),  R(0),        R(0), R(1)>>,
     <<R(-6), R(4),  RNorm(7, 3), R(2), RSub(R(0), gammaQ)>>,
     <<R(0),  R(12), R(-1),       R(0), betaQ>> >>

Singular == <<>>

\* The sequence <<Op(1), ..., Op(n)>>
RECURSIVE Build(_, _)
Build(Op(_), n) == IF n = 0 THEN <<>> ELSE Append(Build(Op, n - 1), Op(n))

IdentityRow(i, n) == Build(LAMBDA j : IF i = j THEN R(1) ELSE R(0), n)

\* The first row at or below c whose entry in column c is largest in magnitude.
PivotRow(A, c, n) ==
  CHOOSE p \in c..n :
    /\ \A q \in c..n : ~RAbsLess(A[p][c], A[q][c])
    /\ \A q \in c..(p - 1) : RAbsLess(A[q][c], A[p][c])

\* Row i of B less B[i][c] times the pivot row.
ClearedRow(B, i, c, row, n) ==
  Build(LAMBDA j : RSub(B[i][j], RMul(B[i][c], row[j])), 2 * n)

\* B with row c replaced by the unit-pivot row and column c cleared elsewhere.
Cleared(B, c, row, n) ==
  Build(LAMBDA i : IF i = c THEN row ELSE ClearedRow(B, i, c, row, n), n)

\* B with row c scaled to a unit pivot and column c cleared elsewhere.
Scaled(B, c, n) ==
  Cleared(B, c, Build(LAMBDA j : RDiv(B[c][j], B[c][c]), 2 * n), n)

\* Swap rows c and p, scale row c to a unit pivot, clear column c elsewhere.
EliminateColumn(A, c, p, n) ==
  Scaled([A EXCEPT ![c] = A[p], ![p] = A[c]], c, n)

RECURSIVE GaussJordan(_, _, _)
\* Columns c..n of the augmented matrix A reduced; Singular without a pivot.
PivotStep(A, c, p, n) ==
  IF A[p][c][1] = 0 THEN Singular
  ELSE GaussJordan(EliminateColumn(A, c, p, n), c + 1, n)

GaussJordan(A, c, n) ==
  IF c > n THEN A ELSE PivotStep(A, c, PivotRow(A, c, n), n)

\* A faulty variant of RightHalf: the slice starts one column early.
RightHalfShifted(A, n) ==
  IF A = Singular THEN Singular
  ELSE Build(LAMBDA i : SubSeq(A[i], n, 2 * n - 1), n)

\* The right half of the reduced augmented matrix A.
RightHalf(A, n) ==
  IF A = Singular THEN Singular
  ELSE Build(LAMBDA i : SubSeq(A[i], n + 1, 2 * n), n)

\* numpy.linalg.inv: the inverse, or Singular (LinAlgError).
Inv(M) ==
  RightHalf(GaussJordan(Build(LAMBDA i : M[i] \o IdentityRow(i, Len(M)), Len(M)),
                        1, Len(M)),
            Len(M))

\* The exact inverse of the rate matrix
RateMatrixInv == Inv(rate_matrix)

\* The dot product of the first j entries of row and v, over the rationals
RECURSIVE RDot(_, _, _)
RDot(row, v, j) ==
  IF j = 0 THEN R(0) ELSE RAdd(RDot(row, v, j - 1), RMul(row[j], v[j]))

\* The rational matrix A as an array of floats
FloatMatrix(A) ==
  Build(LAMBDA i : Build(LAMBDA j : ToFloat(A[i][j]), Len(A[i])), Len(A))

\* numpy.linalg.inv(M) as the float array the object keeps
linalg_inv(M) == IF Inv(M) = Singular THEN Singular ELSE FloatMatrix(Inv(M))

\* A @ v in floating point
RECURSIVE FDot(_, _, _)
FDot(row, v, j) ==
  IF j = 0 THEN Zero ELSE Add(FDot(row, v, j - 1), Mul(row[j], v[j]))

MatVec(A, v) == Build(LAMBDA i : FDot(A[i], v, Len(v)), Len(A))

----------------------------------------------------------------------------
(* Input functions: the callables a caller may pass as `inputs`.  Each     *)
(* yields, at time t, a sequence of values or raises.                      *)

Returns(vals) == [raised |-> FALSE, vals |-> vals]

Raises == [raised |-> TRUE, vals |-> <<>>]

\* Fg_in, Cg_in, Fco_in, Cco_in, Fo_in, Co_in, Fg_out, Cn_in, Fn_in, Fb_in,
\* Cb_in, Fm_in, Fout, Tamb, Q
Ambient(Tamb) ==
  <<Zero, Zero, Zero, Zero, Zero, Zero, Zero, Zero, Zero, Zero,
    Zero, Zero, Zero, Tamb, Zero>>

Call(f, t) ==
  CASE f = "ambient" -> Returns(Ambient(F(298, 0)))
    [] f = "cold"    -> Returns(Ambient(F(-10, 0)))
    [] f = "feeds"   ->
         Returns(<<Zero, Add(t, F(1, 0)), Zero, F(2, 0), Zero, F(3, 0), Zero,
                   F(4, 0), Zero, Zero, F(5, 0), Zero, Zero, F(300, 0), Zero>>)
    [] f = "ramp"    ->
         Returns(<<t, F(1, 0), F(1, 0), F(1, 0), F(1, 0), F(1, 0), F(1, 0),
                   F(1, 0), F(1, -1), F(1, -1), F(2, 0), Zero, F(5, -1),
                   F(298, 0), t>>)
    [] f = "drain"   ->
         Returns(<<Zero, Zero, Zero, Zero, Zero, Zero, Zero, Zero, Zero, Zero,
                   Zero, F(2, 0), F(2, 0), F(298, 0), Zero>>)
    [] f = "empty"   ->
         Returns(<<Zero, Zero, Zero, Zero, Zero, Zero, F(1, 0), Zero, Zero,
                   Zero, Zero, Zero, F(1, 0), F(298, 0), Zero>>)
    [] f = "short"   ->
         IF Less(t, F(5, 0)) THEN Returns(Ambient(F(298, 0)))
         ELSE IF Less(t, F(11, 0))
           THEN Returns(SubSeq(Ambient(F(298, 0)), 1, 14))
         ELSE Returns(Ambient(F(298, 0)) \o <<Zero>>)
    [] f = "faulty"  ->
         IF Less(t, F(5, 0)) THEN Returns(Ambient(F(298, 0))) ELSE Raises

----------------------------------------------------------------------------
(* Model.DEs                                                               *)

\* max(0, N): N when N > 0, else the integer 0 (also for nan and -inf).
Clamp(N) == IF Finite(N) /\ IsPos(N) THEN N ELSE Zero

\* [max(0, N) for N in self.X]
Clamped(X0) == [i \in 1..14 |-> Clamp(X0[i])]

\* The outcome of a call that raised `exc`.
Raised(exc) == [status |-> exc, dX |-> <<>>, rZ |-> Zero, rY |-> Zero,
                Cz |-> Zero, Cy |-> Zero]

\* first_increase = (0.6 / 46 / 25 * 4) * Cy * 1.8
first_increase(Cy) ==
  Mul(Mul(Mul(Div(Div(F(6, -1), F(46, 0)), F(25, 0)), F(4, 0)), Cy), F(18, -1))

\* second_increase = 2/46/120*3.2
second_increase == Mul(Div(Div(F(2, 0), F(46, 0)), F(120, 0)), F(32, -1))

\* decrease = (0.6 / 46 / 40*3) * Cz/3
decrease(Cz) ==
  Div(Mul(Mul(Div(Div(F(6, -1), F(46, 0)), F(40, 0)), F(3, 0)), Cz), F(3, 0))

\* A faulty variant of rZ_of: the turnover is not switched off at Cz = 0.
rZ_unswitched(Cz) == Add(decrease(Cz), second_increase)

\* rZ = decrease + second_increase if Cz > 0 else 0
rZ_of(Cz) ==
  IF IsPos(Cz) THEN Add(decrease(Cz), second_increase) ELSE Zero

\* rY = first_increase + decrease if Cy > 0 else 0
rY_of(Cy, Cz) ==
  IF IsPos(Cy) THEN Add(first_increase(Cy), decrease(Cz)) ELSE Zero

\* RHS = [rFAf, rEf, 8e-5, theta_calc, 0]
RHS_of(Cg, rZ, rY) ==
  << Sub(Mul(F(15, -3), Div(Cg, Add(F(1, -2), Cg))), Mul(F(5, -1), rZ)),
     Mul(Add(second_increase, rY), Div(Cg, Add(F(1, -5), Cg))),
     F(8, -5),
     Mul(F(1, -1), Div(Cg, Add(F(1, -3), Cg))),
     Zero >>

\* rates = <<rFAf, rTCA, rResp, rEf, rbio>>
rG_of(rates) == Sub(Sub(Sub(Neg(rates[1]), rates[2]), rates[4]), rates[5])

rX_of(rates) == Mul(F(6, 0), rates[5])

rFA_of(rates, rZ) == Mul(F(2, 0), Add(rates[1], Mul(F(5, -1), rZ)))

rE_of(rates, rZ, Cg) ==
  Mul(Mul(F(2, 0), Sub(rates[4], rZ)), Div(Cg, Add(F(1, -5), Cg)))

rCO_of(rates) ==
  Add(Add(Add(Mul(F(-2, 0), rates[1]), Mul(F(6, 0), rates[2])),
          Mul(F(2, 0), rates[4])), Mul(F(1, -1), rates[5]))

rO_of(rates) == Mul(F(-5, -1), rates[3])

\* A faulty variant of dV_of: Cg_in (u[2]) is read in place of Fg_in (u[1]).
dV_misindexed(u) == Sub(Add(Add(Add(u[2], u[9]), u[10]), u[12]), u[13])

\* dV = Fg_in + Fn_in + Fb_in + Fm_in - Fout
dV_of(u) == Sub(Add(Add(Add(u[1], u[9]), u[10]), u[12]), u[13])

\* dVg = Fco_in + Fo_in - Fg_out
dVg_of(u) == Sub(Add(u[3], u[5]), u[7])

\* A faulty variant of dT_of: the exchange term has the wrong sign.
dT_reversed(T, u) == Add(Mul(F(45, -1), u[15]), Mul(F(25, -2), Sub(T, u[14])))

\* dT = 4.5*Q - 0.25*(T - Tamb)
dT_of(T, u) == Sub(Mul(F(45, -1), u[15]), Mul(F(25, -2), Sub(T, u[14])))

\* A gas balance (dNco, dNo) when Vg is 0 and the amount positive: the
\* concentration is inf, so -Fg_out * inf is -inf, or nan for Fg_out = 0.
GasInf(u) == IF IsPos(u[7]) THEN NegInf ELSE NaN

\* dNco = Fco_in*Cco_in - Fg_out*Cco + rCO*Cx*V
dNco_of(c, u, Cx, rates) ==
  IF c[13] = Zero THEN GasInf(u)
  ELSE Add(Sub(Mul(u[3], u[4]), Mul(u[7], Div(c[5], c[13]))),
           Mul(Mul(rCO_of(rates), Cx), c[12]))

\* dNo = Fo_in*Co_in - Fg_out*Co - rO*Cx*V
dNo_of(c, u, Cx, rates) ==
  IF c[13] = Zero THEN GasInf(u)
  ELSE Sub(Sub(Mul(u[5], u[6]), Mul(u[7], Div(c[6], c[13]))),
           Mul(Mul(rO_of(rates), Cx), c[12]))

\* Lines 111-126: the balances, from the clamped state c, the inputs u, the
\* concentrations and the rates.
Balances(c, u, Cg, Cx, Cz, Cy, rZ, rY, rates) ==
  [status |-> "ok",
   dX |-> << \* dNg = Fg_in*Cg_in - Fout*Cg + rG*Cx*V
             Add(Sub(Mul(u[1], u[2]), Mul(u[13], Cg)),
                 Mul(Mul(rG_of(rates), Cx), c[12])),
             \* dNx = rX*Cx*V
             Mul(Mul(rX_of(rates), Cx), c[12]),
             \* dNfa = -Fout*Cfa + rFA*Cx*V
             Add(Mul(Neg(u[13]), Div(c[3], c[12])),
                 Mul(Mul(rFA_of(rates, rZ), Cx), c[12])),
             \* dNe = -Fout*Ce + rE*Cx*V
             Add(Mul(Neg(u[13]), Div(c[4], c[12])),
                 Mul(Mul(rE_of(rates, rZ, Cg), Cx), c[12])),
             dNco_of(c, u, Cx, rates),
             dNo_of(c, u, Cx, rates),
             \* dNn = Fn_in*Cn_in - Fout*Cn - delta*rX*Cx*V
             Sub(Sub(Mul(u[9], u[8]), Mul(u[13], Div(c[7], c[12]))),
                 Mul(Mul(Mul(F(2, -1), rX_of(rates)), Cx), c[12])),
             \* dNa = - Fout * Ca
             Mul(Neg(u[13]), Div(c[8], c[12])),
             \* dNb = Fb_in*Cb_in - Fout*Cb
             Sub(Mul(u[10], u[11]), Mul(u[13], Div(c[9], c[12]))),
             \* dNz = -190*rZ*Cx*V
             Mul(Mul(Mul(F(-190, 0), rZ), Cx), c[12]),
             \* dNy = -95*rY*Cx*V
             Mul(Mul(Mul(F(-95, 0), rY), Cx), c[12]),
             dV_of(u),
             dVg_of(u),
             dT_of(c[14], u) >>,
   rZ |-> rZ, rY |-> rY, Cz |-> Cz, Cy |-> Cy]

\* Lines 96-101: RHS and rate_matrix_inv @ RHS.
Fluxes(c, u, Cg, Cx, Cz, Cy, rZ, rY, inv) ==
  Balances(c, u, Cg, Cx, Cz, Cy, rZ, rY, MatVec(inv, RHS_of(Cg, rZ, rY)))

\* Lines 90-94: the enzyme turnovers rZ and rY.
Kinetics(c, u, Cg, Cx, Cz, Cy, inv) ==
  Fluxes(c, u, Cg, Cx, Cz, Cy, rZ_of(Cz), rY_of(Cy, Cz), inv)

\* Lines 87-126 for V > 0: the concentrations Cg, Cx, Cz, Cy, then the rest.
Derivatives(c, u, inv) ==
  Kinetics(c, u, Div(c[1], c[12]), Div(c[2], c[12]), Div(c[10], c[12]),
           Div(c[11], c[12]), inv)

\* Lines 87-126 when V is 0 and every liquid amount is positive: every
\* liquid concentration is inf and every rate nan.
DerivativesInf(c, u) ==
  [status |-> "ok",
   dX |-> <<NaN, NaN, NaN, NaN, NaN, NaN, NaN,
            IF IsPos(u[13]) THEN NegInf ELSE NaN,
            IF IsPos(u[13]) THEN NegInf ELSE NaN,
            NaN, NaN, dV_of(u), dVg_of(u), dT_of(c[14], u)>>,
   rZ |-> PosInf, rY |-> PosInf, Cz |-> PosInf, Cy |-> PosInf]

\* A faulty variant of Unpack: surplus values are silently dropped.
UnpackLenient(r) ==
  IF r.raised THEN "InputError"
  ELSE IF Len(r.vals) < 15 THEN "ValueError"
  ELSE "ok"

\* The outcome of unpacking the input function's result into 15 names.
Unpack(r) ==
  IF r.raised THEN "InputError"
  ELSE IF Len(r.vals) # 15 THEN "ValueError"
  ELSE "ok"

\* N/V for the liquid amounts and N/Vg for the gases raise ZeroDivisionError
\* when the clamped volume and the clamped amount are both the integer 0.
DivisionRaises(c) ==
  \/ c[12] = Zero /\ \E i \in {1, 2, 3, 4, 7, 8, 9, 10, 11} : c[i] = Zero
  \/ c[13] = Zero /\ \E i \in {5, 6} : c[i] = Zero

\* DEs on the clamped state c and the result r of self.inputs(t).
DEsOn(c, r, inv) ==
  IF Unpack(r) # "ok" THEN Raised(Unpack(r))
  ELSE IF DivisionRaises(c) THEN Raised("ZeroDivisionError")
  ELSE IF c[12] = Zero THEN DerivativesInf(c, r.vals)
  ELSE Derivatives(c, r.vals, inv)

\* DEs(t) on the stored state X0 with input function f.
DEs(X0, f, t, inv) == DEsOn(Clamped(X0), Call(f, t), inv)

----------------------------------------------------------------------------
(* Model.calculate_pH                                                      *)

\* K_fa1, K_fa2, K_a, K_b, K_w =
\*   10 ** (-3.03), 10 ** 4.44, 10 ** 8.08, 10 ** 0.56, 10 ** (-14)
K_fa1 == <<9333, -7>>

K_fa2 == <<2754, 1>>

K_a == <<1202, 5>>

K_b == <<3631, -3>>

K_w == <<1000, -17>>

\* The number of grid candidates: numpy.linspace(0, 14, 100)
NGrid == 100

\* pHs[i], i in 0..NGrid-1: i times the grid step, the last one exactly 14.
pHs(i) ==
  IF i = NGrid - 1 THEN F(14, 0)
  ELSE Mul(F(i, 0), Div(F(14, 0), F(NGrid - 1, 0)))

\* Ch = 10 ** (-pH_guess) on the grid: entry i + 1 is 10^(-14 i / 99).
ChTable ==
  << <<1000, -3>>, <<7221, -4>>, <<5214, -4>>, <<3765, -4>>, <<2719, -4>>,
     <<1963, -4>>, <<1417, -4>>, <<1024, -4>>, <<7391, -5>>, <<5337, -5>>,
     <<3854, -5>>, <<2783, -5>>, <<2009, -5>>, <<1451, -5>>, <<1048, -5>>,
     <<7565, -6>>, <<5462, -6>>, <<3944, -6>>, <<2848, -6>>, <<2057, -6>>,
     <<1485, -6>>, <<1072, -6>>, <<7743, -7>>, <<5591, -7>>, <<4037, -7>>,
     <<2915, -7>>, <<2105, -7>>, <<1520, -7>>, <<1097, -7>>, <<7925, -8>>,
     <<5722, -8>>, <<4132, -8>>, <<2984, -8>>, <<2154, -8>>, <<1556, -8>>,
     <<1123, -8>>, <<8111, -9>>, <<5857, -9>>, <<4229, -9>>, <<3054, -9>>,
     <<2205, -9>>, <<1592, -9>>, <<1150, -9>>, <<8302, -10>>, <<5995, -10>>,
     <<4329, -10>>, <<3126, -10>>, <<2257, -10>>, <<1630, -10>>, <<1177, -10>>,
     <<8498, -11>>, <<6136, -11>>, <<4431, -11>>, <<3199, -11>>, <<2310, -11>>,
     <<1668, -11>>, <<1205, -11>>, <<8697, -12>>, <<6280, -12>>, <<4535, -12>>,
     <<3275, -12>>, <<2364, -12>>, <<1707, -12>>, <<1233, -12>>, <<8902, -13>>,
     <<6428, -13>>, <<4642, -13>>, <<3352, -13>>, <<2420, -13>>, <<1748, -13>>,
     <<1262, -13>>, <<9112, -14>>, <<6579, -14>>, <<4751, -14>>, <<3430, -14>>,
     <<2477, -14>>, <<1789, -14>>, <<1292, -14>>, <<9326, -15>>, <<6734, -15>>,
     <<4863, -15>>, <<3511, -15>>, <<2535, -15>>, <<1831, -15>>, <<1322, -15>>,
     <<9545, -16>>, <<6893, -16>>, <<4977, -16>>, <<3594, -16>>, <<2595, -16>>,
     <<1874, -16>>, <<1353, -16>>, <<9770, -17>>, <<7055, -17>>, <<5094, -17>>,
     <<3678, -17>>, <<2656, -17>>, <<1918, -17>>, <<1385, -17>>, <<1000, -17>> >>

C_fa_minus(Ch, C_fa) == Div(Mul(K_fa1, C_fa), Add(K_fa1, Ch))

C_fa_minus2(Ch, fa_minus) == Div(Mul(K_fa2, fa_minus), Add(K_fa2, Ch))

C_cl_minus(Ch, C_a) == Div(Mul(K_a, C_a), Add(K_a, Ch))

C_oh_minus(Ch) == Div(K_w, Ch)

C_na_plus(C_b, oh_minus) == Div(Mul(K_b, C_b), Add(K_b, oh_minus))

\* balance = Ch + C_na_plus - C_fa_minus - C_fa_minus2 - C_cl_minus
\*           - C_oh_minus
balance(Ch, na_plus, fa_minus, fa_minus2, cl_minus, oh_minus) ==
  Sub(Sub(Sub(Sub(Add(Ch, na_plus), fa_minus), fa_minus2), cl_minus),
      oh_minus)

charge_balance(Ch, C_fa, C_a, C_b) ==
  balance(Ch, C_na_plus(C_b, C_oh_minus(Ch)), C_fa_minus(Ch, C_fa),
          C_fa_minus2(Ch, C_fa_minus(Ch, C_fa)), C_cl_minus(Ch, C_a),
          C_oh_minus(Ch))

\* The sequence <<Op(lo), ..., Op(hi)>>, lo <= hi
RECURSIVE BuildRange(_, _, _)
BuildRange(Op(_), lo, hi) ==
  IF lo = hi THEN <<Op(lo)>>
  ELSE BuildRange(Op, lo, (lo + hi) \div 2)
       \o BuildRange(Op, (lo + hi) \div 2 + 1, hi)

\* CBs = charge_balance(pHs) for finite concentrations
CBs(C_fa, C_a, C_b) ==
  BuildRange(LAMBDA i : charge_balance(ChTable[i], C_fa, C_a, C_b), 1, NGrid)

\* A faulty variant of Better: the larger residual wins.
Worse(cbs, l, r) == IF Less(FAbs(cbs[l]), FAbs(cbs[r])) THEN r ELSE l

\* Of two positions l < r, the one argmin prefers: the first on a tie.
Better(cbs, l, r) == IF Less(FAbs(cbs[r]), FAbs(cbs[l])) THEN r ELSE l

\* numpy.argmin(abs(CBs)) over positions lo..hi (counted from 1)
RECURSIVE ArgMin(_, _, _)
ArgMin(cbs, lo, hi) ==
  IF lo = hi THEN lo
  ELSE Better(cbs, ArgMin(cbs, lo, (lo + hi) \div 2),
              ArgMin(cbs, (lo + hi) \div 2 + 1, hi))

\* The IEEE class of the quotient N / V formed by numpy.
QuotKind(N, V) ==
  IF N = NaN THEN "nan"
  ELSE IF N = NegInf THEN (IF V[1] < 0 THEN "+inf" ELSE "-inf")
  ELSE IF V[1] # 0 THEN "fin"
  ELSE IF N[1] = 0 THEN "nan"
  ELSE IF N[1] > 0 THEN "+inf" ELSE "-inf"

FlipKind(k) == IF k = "+inf" THEN "-inf" ELSE IF k = "-inf" THEN "+inf" ELSE k

\* The class of every entry of CBs: the sodium term enters with +, the
\* formate and chloride terms with -; inf - inf and anything with nan is nan.
SumKind(ks) ==
  IF "nan" \in ks \/ ("+inf" \in ks /\ "-inf" \in ks) THEN "nan"
  ELSE IF "+inf" \in ks THEN "+inf"
  ELSE IF "-inf" \in ks THEN "-inf"
  ELSE "fin"

BalanceKind(Nfa, Na, Nb, V) ==
  SumKind({QuotKind(Nb, V), FlipKind(QuotKind(Nfa, V)),
           FlipKind(QuotKind(Na, V))})

\* Lines 167-174 on the residuals cbs with index (counted from 0) found.
Selected(cbs, index) ==
  [pH |-> pHs(index), index |-> index,
   printed |-> Less(F(1, -1), FAbs(cbs[index + 1]))]

\* calculate_pH on finite concentrations.
GridSearch(cbs) == Selected(cbs, ArgMin(cbs, 1, NGrid) - 1)

\* calculate_pH when every residual is nan or infinite: argmin is 0, and
\* abs(CBs[0]) > 1e-1 holds for an infinite residual only.
NonFinite(kind) == [pH |-> pHs(0), index |-> 0, printed |-> kind # "nan"]

\* calculate_pH on the stored state X0; `printed` tells whether the
\* diagnostic line was printed.
calculate_pH(X0) ==
  IF BalanceKind(X0[3], X0[8], X0[9], X0[12]) # "fin"
  THEN NonFinite(BalanceKind(X0[3], X0[8], X0[9], X0[12]))
  ELSE GridSearch(CBs(Div(X0[3], X0[12]), Div(X0[8], X0[12]),
                      Div(X0[9], X0[12])))

----------------------------------------------------------------------------
(* Model.outputs and Model.get_Xs                                          *)

\* With pH_calculations the result is a fresh array, X with the pH
\* appended; without, it is self.X itself, the very array step updates in
\* place.
outputs(X0, flag) ==
  IF flag THEN [alias |-> FALSE, data |-> Append(X0, calculate_pH(X0).pH)]
  ELSE [alias |-> TRUE, data |-> <<>>]

\* What a history entry shows when read while the stored state is X0.
Deref(row, X0) == IF row.alias THEN X0 ELSE row.data

\* numpy.array(self._Xs)
get_Xs(rows, X0) == [k \in 1..Len(rows) |-> Deref(rows[k], X0)]

----------------------------------------------------------------------------
(* The Model object                                                        *)

VARIABLES
  X,                \* self.X, the stored state (14 components)
  dtype,            \* the element type of the array self.X
  inputs,           \* self.inputs, the input function
  t,                \* self.t
  pH_calculations,  \* self.pH_calculations
  Xs,               \* self._Xs, the history list
  rate_matrix_inv,  \* self.rate_matrix_inv
  ret,              \* the last call: its name, argument and outcome
  recorded,         \* the value outputs() had each time a row was appended
  nsteps,           \* the number of step calls made
  completed         \* the number of step calls that returned normally

vars == <<X, dtype, inputs, t, pH_calculations, Xs, rate_matrix_inv, ret,
          recorded, nsteps, completed>>

\* The number of step calls explored
MaxSteps == 2

\* The step sizes explored: 0.01, 1, 4, 10
DTs == {F(1, -2), F(1, 0), F(4, 0), F(10, 0)}

Num(n) == F(n, 0)

\* Ng, Nx, Nfa, Ne, Nco, No, Nn, Na, Nb, Nz, Ny, V, Vg, T
StateInts ==
  <<Num(100), Num(1), Zero, Zero, Zero, Zero, Zero, Zero, Zero, Zero, Zero,
    Num(1), Num(1), Num(298)>>

StateCharged ==
  <<Num(5), Num(2), Num(1), Num(1), Num(1), Num(1), Num(1), Num(1), Num(1),
    Num(5), Num(1), Num(1), Num(1), Num(310)>>

\* The initial-state lists X0 handed to the constructor: `literals` tells
\* whether the list is written with integer literals only.
AsInts == [vals |-> StateInts, literals |-> "int"]

AsFloats == [vals |-> StateInts, literals |-> "float"]

Charged == [vals |-> StateCharged, literals |-> "float"]

\* No liquid and no gas volume
Dry == [vals |-> [StateCharged EXCEPT ![12] = Zero, ![13] = Zero],
        literals |-> "float"]

\* No gas volume
Vented == [vals |-> [StateCharged EXCEPT ![13] = Zero], literals |-> "float"]

\* The constructor calls explored: X0, inputs, pH_calculations
Scenarios ==
  { <<AsInts, "ambient", FALSE>>,
    <<AsFloats, "ambient", FALSE>>, <<AsFloats, "ambient", TRUE>>,
    <<AsFloats, "empty", FALSE>>,   <<AsFloats, "feeds", FALSE>>,
    <<Charged, "feeds", FALSE>>,    <<Charged, "ramp", FALSE>>,
    <<Charged, "drain", FALSE>>,    <<Charged, "drain", TRUE>>,
    <<Charged, "empty", FALSE>>,    <<Charged, "empty", TRUE>>,
    <<Charged, "short", FALSE>>,    <<Charged, "faulty", FALSE>>,
    <<Charged, "cold", FALSE>>,
    <<Dry, "ambient", FALSE>>,      <<Vented, "empty", FALSE>> }

\* numpy.array(X0): a list of integer literals makes an int64 array.
ArrayDtype(X0) == IF X0.literals = "int" THEN "int64" ELSE "float64"

NoCall == [op |-> "init", status |-> "ok", arg |-> Zero, val |-> <<>>]

\* Model.__init__(X0, inputs, pH_calculations)
Construct(X0, f, flag) ==
  /\ X = X0.vals
  /\ dtype = ArrayDtype(X0)
  /\ inputs = f
  /\ t = Zero
  /\ pH_calculations = flag
  /\ Xs = <<outputs(X0.vals, flag)>>
  /\ recorded = <<Deref(Xs[1], X0.vals)>>
  /\ rate_matrix_inv = linalg_inv(rate_matrix)
  /\ ret = NoCall
  /\ nsteps = 0
  /\ completed = 0

Init == \E sc \in Scenarios : Construct(sc[1], sc[2], sc[3])

\* dX * dt, componentwise
Scale(d, dt) == IF Finite(d) THEN Mul(d, dt) ELSE d

\* x + d for stored values, nan and -inf included
AddStored(x, d) ==
  IF x = NaN \/ d = NaN THEN NaN
  ELSE IF x = NegInf \/ d = NegInf THEN NegInf
  ELSE Add(x, d)

\* A faulty variant of EulerUpdate: the clamped state is written back.
EulerUpdateClamped(X0, dX, dt) ==
  [i \in 1..14 |-> AddStored(Clamp(X0[i]), Scale(dX[i], dt))]

\* self.X += numpy.array(dX)*dt
EulerUpdate(X0, dX, dt) ==
  [i \in 1..14 |-> AddStored(X0[i], Scale(dX[i], dt))]

\* self.t += dt
StepTime(t0, dt) == Add(t0, dt)

\* The outcome of step given the outcome r of DEs: the in-place += of a
\* float64 array into an int64 array raises.
StepStatus(r, dt0) ==
  IF r.status # "ok" THEN r.status
  ELSE IF dt0 = "int64" THEN "UFuncTypeError"
  ELSE "ok"

\* Line 140: self._Xs.append(self.outputs()), out being self.outputs()
AppendOutputs(out) ==
  /\ Xs' = Append(Xs, out)
  /\ recorded' = Append(recorded, Deref(out, X'))

\* Lines 139-140, reached when DEs returned r normally
Update(r, dt) ==
  /\ X' = EulerUpdate(X, r.dX, dt)
  /\ AppendOutputs(outputs(X', pH_calculations))
  /\ completed' = completed + 1

\* Lines 138-140 with r the outcome of self.DEs(self.t)
StepFrom(r, dt) ==
  /\ IF StepStatus(r, dtype) = "ok" THEN Update(r, dt)
     ELSE UNCHANGED <<X, Xs, recorded, completed>>
  /\ ret' = [op |-> "step", status |-> StepStatus(r, dtype), arg |-> dt,
             val |-> r]

\* Model.step(dt)
Step(dt) ==
  /\ nsteps < MaxSteps
  /\ nsteps' = nsteps + 1
  /\ t' = StepTime(t, dt)
  /\ StepFrom(DEs(X, inputs, t', rate_matrix_inv), dt)
  /\ UNCHANGED <<dtype, inputs, pH_calculations, rate_matrix_inv>>

\* The caller receives r, the outcome of DEs at time t0.
Receive(r, t0) == ret' = [op |-> "DEs", status |-> r.status, arg |-> t0, val |-> r]

\* Model.DEs(self.t), called from outside step
CallDEs ==
  /\ Receive(DEs(X, inputs, t, rate_matrix_inv), t)
  /\ UNCHANGED <<X, dtype, inputs, t, pH_calculations, Xs, rate_matrix_inv,
                 recorded, nsteps, completed>>

\* Model.get_Xs()
GetXs ==
  /\ ret' = [op |-> "get_Xs", status |-> "ok", arg |-> Zero,
             val |-> get_Xs(Xs, X)]
  /\ UNCHANGED <<X, dtype, inputs, t, pH_calculations, Xs, rate_matrix_inv,
                 recorded, nsteps, completed>>

Next ==
  \/ \E dt \in DTs : Step(dt)
  \/ CallDEs
  \/ GetXs

Spec == Init /\ [][Next]_vars

----------------------------------------------------------------------------
(* calculate_pH on its own: states with non-negative Nfa, Na, Nb and V > 0 *)

\* Nfa, Na, Nb: 0, 0.001, 0.1, 20
Amounts == {Zero, F(1, -3), F(1, -1), F(20, 0)}

\* V: 0.5, 1, 100
Volumes == {F(5, -1), F(1, 0), F(100, 0)}

PHState(Nfa, Na, Nb, V) ==
  [vals |-> [StateCharged EXCEPT ![3] = Nfa, ![8] = Na, ![9] = Nb, ![12] = V],
   literals |-> "float"]

InitPH ==
  \E Nfa \in Amounts, Na \in Amounts, Nb \in Amounts, V \in Volumes :
    Construct(PHState(Nfa, Na, Nb, V), "ambient", TRUE)

\* Model.calculate_pH()
CalculatePH ==
  /\ ret' = [op |-> "calculate_pH", status |-> "ok", arg |-> Zero,
             val |-> calculate_pH(X)]
  /\ UNCHANGED <<X, dtype, inputs, t, pH_calculations, Xs, rate_matrix_inv,
                 recorded, nsteps, completed>>

NextPH == CalculatePH

SpecPH == InitPH /\ [][NextPH]_vars

----------------------------------------------------------------------------
(* The linear solve of DEs on its own: rates = rate_matrix_inv @ RHS       *)

\* The entries the right-hand sides are built from: 0.015 and -2.5
RHSEntries == {F(15, -3), F(-25, -1)}

RHSs == [1..5 -> RHSEntries]

\* Line 101: rates = self.rate_matrix_inv @ RHS
Solve(RHS) ==
  /\ ret' = [op |-> "solve", status |-> "ok", arg |-> RHS,
             val |-> MatVec(rate_matrix_inv, RHS)]
  /\ UNCHANGED <<X, dtype, inputs, t, pH_calculations, Xs, rate_matrix_inv,
                 recorded, nsteps, completed>>

InitSolve == Construct(Charged, "feeds", FALSE)

NextSolve ==
  \/ \E RHS \in RHSs : Solve(RHS)
  \/ \E dt \in DTs : Step(dt)
  \/ CallDEs

SpecSolve == InitSolve /\ [][NextSolve]_vars

----------------------------------------------------------------------------
(* Properties                                                              *)

\* The transition is a call of step.
IsStep == nsteps' = nsteps + 1

\* The transition is a call of step that returned normally.
StepReturned == IsStep /\ ret'.status = "ok"

\* C1: History growth.  After n completed steps get_Xs() has n + 1 rows,
\* row 0 the outputs computed at construction and row k the outputs recorded
\* right after the k-th step: no recorded row is changed by a later step.
C1_HistoryGrowth ==
  ret.op = "get_Xs" =>
    /\ Len(ret.val) = completed + 1
    /\ ret.val = recorded

\* C2: Euler step identity.  A step that returns leaves
\* X = X_before + DEs(t_before) * dt, the inputs sampled at t_before.
C2_EulerAtTBefore ==
  [][StepReturned =>
       /\ DEs(X, inputs, t, rate_matrix_inv).status = "ok"
       /\ \A i \in 1..14 :
            X'[i] = AddStored(X[i], Scale(DEs(X, inputs, t, rate_matrix_inv).dX[i],
                                          ret'.arg))]_vars

\* The times at which step samples the inputs
RECURSIVE SampleTimes(_)
SampleTimes(n) ==
  IF n = 0 THEN {Zero}
  ELSE SampleTimes(n - 1) \cup {Add(t0, dt) : t0 \in SampleTimes(n - 1), dt \in DTs}

\* Fg_in, Fco_in, Fo_in, Fg_out, Fn_in, Fb_in, Fm_in, Fout
FlowIndices == {1, 3, 5, 7, 9, 10, 12, 13}

\* The input function f returns 15 values with every flow rate and the heat
\* input 0, at every sample time.
ZeroFlowAt(r) ==
  /\ Unpack(r) = "ok"
  /\ \A i \in FlowIndices : r.vals[i] = Zero
  /\ r.vals[15] = Zero

ZeroFlowFns ==
  {f \in {"ambient", "cold", "feeds", "ramp", "drain", "empty", "short", "faulty"} :
     \A tt \in SampleTimes(MaxSteps) : ZeroFlowAt(Call(f, tt))}

\* C3: Conservation under zero flow.  When every flow rate and the heat
\* input are 0 at all times, V and Vg in the stored state and in every
\* history row are exactly their values at construction.
C3_VolumesConserved ==
  inputs \in ZeroFlowFns =>
    /\ X[12] = recorded[1][12]
    /\ X[13] = recorded[1][13]
    /\ \A k \in 1..Len(Xs) :
         /\ Deref(Xs[k], X)[12] = recorded[1][12]
         /\ Deref(Xs[k], X)[13] = recorded[1][13]

\* Zero-flow inputs with varying feed concentrations, two steps done, the
\* rest of the state has moved.
C3_Witness ==
  /\ inputs = "feeds"
  /\ inputs \in ZeroFlowFns
  /\ completed = 2
  /\ X[14] # recorded[1][14]
  /\ X[2] # recorded[1][2]

\* |T - Tamb|
Dist(T, Tamb) == FAbs(Sub(T, Tamb))

\* The inputs sampled by the step being taken: 15 values, heat input 0.
HeatFree(r) == Unpack(r) = "ok" /\ r.vals[15] = Zero

\* The distance to Tamb does not grow over the step and T stays at Tamb.
Decays(T0, T1, Tamb) ==
  /\ LessEq(Dist(T1, Tamb), Dist(T0, Tamb))
  /\ (T0 = Tamb => T1 = Tamb)

\* The distance shrinks strictly when it is at least 1 and dt at least 1
\* (well above the rounding of the four digit arithmetic).
Approaches(T0, T1, Tamb, dt) ==
  (LessEq(F(1, 0), Dist(T0, Tamb)) /\ LessEq(F(1, 0), dt)) =>
     Less(Dist(T1, Tamb), Dist(T0, Tamb))

MinimalAt(cbs, k) ==
  \A j \in 1..NGrid : LessEq(FAbs(cbs[k]), FAbs(cbs[j]))

\* C5: pH grid bound.  For non-negative Nfa, Na, Nb and V > 0,
\* calculate_pH returns without raising one of the 100 grid candidates, a
\* value in [0, 14], whose absolute residual is minimal over the grid, also
\* when that residual exceeds 1e-1 and the diagnostic is printed.
C5_PHGridBound ==
  ret.op = "calculate_pH" =>
    /\ ret.status = "ok"
    /\ ret.val.index \in 0..(NGrid - 1)
    /\ ret.val.pH = pHs(ret.val.index)
    /\ LessEq(Zero, ret.val.pH) /\ LessEq(ret.val.pH, F(14, 0))
    /\ MinimalAt(CBs(Div(X[3], X[12]), Div(X[8], X[12]), Div(X[9], X[12])),
                 ret.val.index + 1)

\* A call whose minimal residual exceeds the tolerance, found inside the grid.
C5_Witness ==
  /\ ret.op = "calculate_pH"
  /\ IsPos(X[12]) /\ IsPos(X[9]) /\ X[3] = Zero
  /\ ret.val.printed
  /\ ret.val.index > 0

\* C6: The stored state is never clamped.  DEs leaves X, t and the history
\* unchanged; step writes back X + dX*dt from the unclamped X, and the row it
\* records is that state: a negative component stays negative in the state
\* and in the history.
C6_NeverClamped ==
  [][/\ (ret'.op = "DEs" => UNCHANGED <<X, t, Xs, recorded, completed>>)
     /\ (StepReturned =>
           /\ \A i \in 1..14 :
                X'[i] = AddStored(X[i], Scale(ret'.val.dX[i], ret'.arg))
           /\ \A i \in 1..14 :
                Deref(Xs'[Len(Xs')], X')[i] = X'[i])]_vars

\* A component went negative in the first step, is still negative after
\* the second, and DEs has since been called.
C6_Witness ==
  /\ ret.op = "DEs" /\ ret.status = "ok"
  /\ completed = 2
  /\ Less(recorded[2][9], Zero)
  /\ Less(X[9], Zero)
  /\ Deref(Xs[3], X)[9] = X[9]

\* C7: End-to-end scenario.  Built from the integer list
\* [100, 1, 0, 0, 0, 0, 0, 0, 0, 0, 0, 1, 1, 298] with all-zero inputs at
\* Tamb = 298, every step(0.01) completes, V, Vg and T are unchanged, Ng has
\* not grown and Nx has not shrunk.
C7_EndToEnd ==
  (/\ dtype = ArrayDtype(AsInts)
   /\ recorded[1] = Deref(outputs(StateInts, pH_calculations), StateInts)
   /\ inputs = "ambient"
   /\ ret.op = "step" /\ ret.arg = F(1, -2)) =>
     /\ ret.status = "ok"
     /\ completed = nsteps
     /\ X[12] = recorded[1][12] /\ X[13] = recorded[1][13]
     /\ X[14] = F(298, 0)
     /\ LessEq(X[1], recorded[completed][1])
     /\ LessEq(recorded[completed][2], X[2])

\* The largest magnitude among the entries of v
RECURSIVE MaxAbs(_, _)
MaxAbs(v, j) ==
  IF j = 0 THEN Zero
  ELSE IF Less(MaxAbs(v, j - 1), FAbs(v[j])) THEN FAbs(v[j])
  ELSE MaxAbs(v, j - 1)

\* The relative rounding error allowed in a round trip (four digit floats)
Tolerance == F(1, -2)

\* A @ B over the rationals
MatMulQ(A, B) ==
  [i \in 1..Len(A) |->
     [j \in 1..Len(A) |-> RDot(A[i], [k \in 1..Len(A) |-> B[k][j]], Len(A))]]

IdentityQ(n) == [i \in 1..n |-> [j \in 1..n |-> IF i = j THEN R(1) ELSE R(0)]]

\* The rate matrix and the inverse the constructor stores, as float arrays
RateMatrixF == FloatMatrix(rate_matrix)

RateMatrixInvF == linalg_inv(rate_matrix)

\* C8 as stated: the rates returned for RHS satisfy
\* rate_matrix * rates == RHS.
C8_ExactRoundTrip ==
  ret.op = "solve" => MatVec(RateMatrixF, ret.val) = ret.arg

\* C8: Linear-solve correctness.  The rate matrix is non-singular, the
\* stored inverse is the one computed at construction whatever DEs and step
\* calls were made, and the rates returned for RHS satisfy
\* rate_matrix * rates == RHS up to rounding error.
C8_RoundTrip ==
  /\ rate_matrix_inv # Singular
  /\ rate_matrix_inv = RateMatrixInvF
  /\ MatMulQ(rate_matrix, RateMatrixInv) = IdentityQ(5)
  /\ ret.op = "solve" =>
       \A i \in 1..5 :
         LessEq(FAbs(Sub(MatVec(RateMatrixF, ret.val)[i], ret.arg[i])),
                Mul(Tolerance, MaxAbs(ret.arg, 5)))

\* A solve after two steps, its round trip not exact.
C8_Witness ==
  /\ ret.op = "solve"
  /\ completed = 2
  /\ ret.arg[1] # ret.arg[4]
  /\ MatVec(RateMatrixF, ret.val) # ret.arg

\* C9: Kinetic switching.  With clamped Cz = 0 and Cy = 0, rZ and rY are
\* exactly 0; with Cz > 0 and Cy = 0, rZ is nonzero and rY exactly 0; a
\* stored Nz (Ny) that is zero or negative has derivative exactly 0.
C9_KineticSwitching ==
  (ret.op \in {"DEs", "step"} /\ ret.val.status = "ok" /\ Finite(ret.val.Cz)) =>
    /\ (ret.val.Cz = Zero /\ ret.val.Cy = Zero) =>
          ret.val.rZ = Zero /\ ret.val.rY = Zero
    /\ (IsPos(ret.val.Cz) /\ ret.val.Cy = Zero) =>
          ret.val.rZ # Zero /\ ret.val.rY = Zero
    /\ ret.op = "DEs" =>
         /\ (Finite(X[10]) /\ ~IsPos(X[10])) => ret.val.dX[10] = Zero
         /\ (Finite(X[11]) /\ ~IsPos(X[11])) => ret.val.dX[11] = Zero

\* DEs called with Nz > 0 and Ny < 0 stored.
C9_Witness ==
  /\ ret.op = "DEs" /\ ret.status = "ok"
  /\ IsPos(X[10]) /\ Less(X[11], Zero)
  /\ IsPos(ret.val.Cz) /\ ret.val.Cy = Zero
  /\ ret.val.rZ # Zero /\ ret.val.dX[10] # Zero /\ ret.val.dX[11] = Zero

\* The input function raises or returns other than 15 values.
InputFails(r) == r.raised \/ Len(r.vals) # 15

\* C10: Failed step.  When the input function raises or returns a number
\* of values other than 15, step fails with an error, X is unchanged, no
\* row is appended (get_Xs() has completed-steps + 1 rows), and t has been
\* advanced by dt.
C10_FailedStep ==
  [][(IsStep /\ InputFails(Call(inputs, t'))) =>
       /\ ret'.status \in {"InputError", "ValueError"}
       /\ X' = X
       /\ Xs' = Xs
       /\ completed' = completed
       /\ Len(get_Xs(Xs', X')) = completed' + 1
       /\ t' = Add(t, ret'.arg)
       /\ t' # t]_vars

\* A step that failed on 16 returned values after one on 14 values.
C10_Witness ==
  /\ inputs = "short"
  /\ ret.op = "step" /\ ret.status = "ValueError"
  /\ nsteps = 2 /\ completed = 0
  /\ LessEq(F(11, 0), t)
  /\ Len(Xs) = 1

====
